---- MODULE Spec2Model ----
(***************************************************************************)
(* filego: Split a file into numbered chunk files, Check a chunk           *)
(* directory, Merge a chunk directory back into one file.                  *)
(*                                                                         *)
(* The state is the local filesystem (three paths: the Split input file,   *)
(* the chunk directory, the Merge output path) and the record of the last  *)
(* operation.  Every operation is one atomic action: the operations are    *)
(* sequential and share nothing but the filesystem.                        *)
(*                                                                         *)
(* Bytes are labelled <<origin, offset>>.  No operation inspects a byte,   *)
(* so a run on labelled bytes stands for every run on files of the same    *)
(* lengths, and any loss, duplication or reordering of bytes is visible.   *)
(***************************************************************************)
EXTENDS Integers, Sequences, FiniteSets, TLC

VARIABLES fs, last, hist

vars == <<fs, last, hist>>

(***************************************************************************)
(* Bounds of the model.                                                    *)
(***************************************************************************)
MaxFileLen == 4

MaxChunkSize == 3

MaxCapMax == 2

MaxChunkLen == 2

MaxRead == 2

MaxTotalChunks == 3

(***************************************************************************)
(* Small helpers.                                                          *)
(***************************************************************************)
Min(a, b) == IF a <= b THEN a ELSE b

Range(s) == {s[i] : i \in 1..Len(s)}

Perms(S) == {p \in [1..Cardinality(S) -> S] : \A i, j \in 1..Cardinality(S) : p[i] = p[j] => i = j}

None == <<>>

Some(v) == <<v>>

(***************************************************************************)
(* File names are sequences of characters.  usize::to_string writes the    *)
(* decimal digits; str::parse::<usize> accepts an optional leading "+"     *)
(* and then one or more decimal digits (leading zeros allowed), and is an  *)
(* error (None here) on anything else.                                     *)
(***************************************************************************)
Digits == <<"0", "1", "2", "3", "4", "5", "6", "7", "8", "9">>

IsDigit(c) == \E d \in 1..10 : Digits[d] = c

DigitValue(c) == (CHOOSE d \in 1..10 : Digits[d] = c) - 1

RECURSIVE to_string(_)
to_string(n) ==
    IF n < 10 THEN <<Digits[n + 1]>>
    ELSE to_string(n \div 10) \o <<Digits[(n % 10) + 1]>>

RECURSIVE ParseDigits(_, _)
ParseDigits(s, acc) ==
    IF s = <<>> THEN Some(acc)
    ELSE IF ~IsDigit(Head(s)) THEN None
    ELSE ParseDigits(Tail(s), acc * 10 + DigitValue(Head(s)))

parse_usize(s) ==
    IF s = <<>> THEN None
    ELSE IF Head(s) = "+" THEN (IF Tail(s) = <<>> THEN None ELSE ParseDigits(Tail(s), 0))
    ELSE ParseDigits(s, 0)

(***************************************************************************)
(* Filesystem nodes: a path is absent, a regular file with data, or a      *)
(* directory with named entries (themselves nodes).                        *)
(***************************************************************************)
Absent == [kind |-> "absent", data |-> <<>>, ents |-> <<>>]

FileNode(data) == [kind |-> "file", data |-> data, ents |-> <<>>]

DirNode(ents) == [kind |-> "dir", data |-> <<>>, ents |-> ents]

Put(ents, name, node) ==
    [n \in (DOMAIN ents) \cup {name} |-> IF n = name THEN node ELSE ents[n]]

IsFileIn(ents, name) == name \in DOMAIN ents /\ ents[name].kind = "file"

Labelled(tag, len) == [i \in 1..len |-> <<tag, i>>]

InTag == <<"i", "n">>

OldTag == <<"o", "l", "d">>

(***************************************************************************)
(* Results.                                                                *)
(***************************************************************************)
Ok(v) == [kind |-> "ok", err |-> "", val |-> v]

Err(e) == [kind |-> "err", err |-> e, val |-> <<>>]

Panic == [kind |-> "panic", err |-> "called Result::unwrap() on an Err value", val |-> <<>>]

Outcome(res, f) == [res |-> res, fs |-> f, obs |-> <<>>]

Observed(res, f, cap, allocs) ==
    [res |-> res, fs |-> f, obs |-> [buffer_capacity |-> cap, allocs |-> allocs]]

(***************************************************************************)
(* Mutant of BufferCapacity: the configured maximum is not applied.        *)
(***************************************************************************)
BufferCapacity_uncapped(size, cap_max) == size

(***************************************************************************)
(* buffer_capacity = chunk_size.min(cap_max) in Split,                     *)
(* input_size.min(cap_max) in Merge.                                       *)
(***************************************************************************)
BufferCapacity(size, cap_max) == Min(size, cap_max)

(***************************************************************************)
(* The buffers a run has allocated, each with its size in bytes.  Split:   *)
(* BufReader::with_capacity(buffer_capacity), vec![0; chunk_size], and     *)
(* per opened chunk file BufWriter::with_capacity(buffer_capacity).        *)
(* Merge: BufWriter::with_capacity(buffer_capacity) once the output is     *)
(* open, and per opened chunk BufReader::with_capacity(buffer_capacity)    *)
(* and vec![0; buffer_capacity].                                           *)
(***************************************************************************)
Split_allocs(chunk_size, cap, opened) ==
    {<<"reader", cap>>, <<"buffer", chunk_size>>} \cup
    (IF opened THEN {<<"writer", cap>>} ELSE {})

Merge_allocs(cap, opened) ==
    {<<"writer", cap>>} \cup
    (IF opened THEN {<<"reader", cap>>, <<"buffer", cap>>} ELSE {})

(***************************************************************************)
(* The I/O library under the buffered reader: a read of the file at        *)
(* position pos returns at most want bytes, at most what is left, and      *)
(* (a short read) at most rd bytes; zero bytes mean end of input.          *)
(***************************************************************************)
File_read(file, pos, want, rd) == Min(Min(want, Len(file) - pos), rd)

(***************************************************************************)
(* BufReader::read with capacity cap.  r = [pos, ibuf]: the position of    *)
(* the underlying file and the bytes buffered but not yet handed out.      *)
(* With an empty internal buffer and a request of at least cap bytes the   *)
(* read goes straight to the file; otherwise the internal buffer is        *)
(* refilled when empty and the request is served from it.                  *)
(***************************************************************************)
BufReader_read(file, r, want, cap, rd) ==
    IF r.ibuf = <<>> /\ want >= cap
    THEN LET n == File_read(file, r.pos, want, rd)
         IN  [data |-> SubSeq(file, r.pos + 1, r.pos + n),
              r |-> [pos |-> r.pos + n, ibuf |-> <<>>]]
    ELSE LET n == IF r.ibuf = <<>> THEN File_read(file, r.pos, cap, rd) ELSE 0
             ibuf == IF r.ibuf = <<>> THEN SubSeq(file, r.pos + 1, r.pos + n) ELSE r.ibuf
             k == Min(Len(ibuf), want)
         IN  [data |-> SubSeq(ibuf, 1, k),
              r |-> [pos |-> r.pos + n, ibuf |-> SubSeq(ibuf, k + 1, Len(ibuf))]]

(***************************************************************************)
(* Mutant of Split_fill: the buffer is taken after one read, whether or    *)
(* not it is full.                                                         *)
(***************************************************************************)
Split_fill_one_read(file, r, acc, chunk_size, cap, rd) ==
    LET x == BufReader_read(file, r, chunk_size - Len(acc), cap, rd)
    IN  [acc |-> acc \o x.data, r |-> x.r]

(***************************************************************************)
(* Split: the inner loop that fills the chunk buffer,                      *)
(*   while offset < chunk_size { n = read(buffer[offset..]); if n == 0     *)
(*   break; offset += n }.  acc is buffer[..offset].                       *)
(***************************************************************************)
RECURSIVE Split_fill(_, _, _, _, _, _)
Split_fill(file, r, acc, chunk_size, cap, rd) ==
    IF Len(acc) >= chunk_size THEN [acc |-> acc, r |-> r]
    ELSE LET x == BufReader_read(file, r, chunk_size - Len(acc), cap, rd)
         IN  IF Len(x.data) = 0 THEN [acc |-> acc, r |-> x.r]
             ELSE Split_fill(file, x.r, acc \o x.data, chunk_size, cap, rd)

(***************************************************************************)
(* Mutant of ChunkName: chunks are numbered from 1.                        *)
(***************************************************************************)
ChunkName_from_one(total_chunks) == to_string(total_chunks + 1)

(***************************************************************************)
(* The file name of the next chunk: out_dir.join(total_chunks.to_string()) *)
(***************************************************************************)
ChunkName(total_chunks) == to_string(total_chunks)

(***************************************************************************)
(* Split: the outer loop.  Each non-empty buffer is written to a file      *)
(* named by the chunk counter, created or truncated; the loop ends when a  *)
(* fill accumulates nothing.  Yields the failing step ("" when none), the  *)
(* directory entries and the chunk counter.                                *)
(***************************************************************************)
RECURSIVE Split_loop(_, _, _, _, _, _, _)
Split_loop(file, r, ents, total_chunks, chunk_size, cap, env) ==
    IF env.fault = "read" THEN [fail |-> "read", ents |-> ents, total |-> total_chunks]
    ELSE
    LET f == Split_fill(file, r, <<>>, chunk_size, cap, env.rd)
        name == ChunkName(total_chunks)
    IN  IF Len(f.acc) = 0 THEN [fail |-> "", ents |-> ents, total |-> total_chunks]
        ELSE IF env.fault = "open_out" \/ (name \in DOMAIN ents /\ ents[name].kind = "dir")
        THEN [fail |-> "open_out", ents |-> ents, total |-> total_chunks]
        ELSE IF env.fault = "write"
        THEN [fail |-> "write", ents |-> Put(ents, name, FileNode(<<>>)), total |-> total_chunks]
        ELSE Split_loop(file, f.r, Put(ents, name, FileNode(f.acc)),
                        total_chunks + 1, chunk_size, cap, env)

(***************************************************************************)
(* Split, from the opened output directory on: open the input, take its    *)
(* size from the metadata, run the loop.  errs maps the failing step to    *)
(* the error value of the implementation.                                  *)
(***************************************************************************)
Split_body(f, ents, cfg, env, errs) ==
    LET buffer_capacity == BufferCapacity(cfg.chunk_size, cfg.cap_max)
        made == [f EXCEPT !.dir = DirNode(ents)]
    IN  IF env.fault = "open_in" THEN Observed(Err(errs["open_in"]), made, buffer_capacity, {})
        ELSE IF env.fault = "metadata"
        THEN Observed(Err(errs["metadata"]), made, buffer_capacity, {})
        ELSE LET l == Split_loop(f.inFile.data, [pos |-> 0, ibuf |-> <<>>], ents, 0,
                                 cfg.chunk_size, buffer_capacity, env)
                 after == [f EXCEPT !.dir = DirNode(l.ents)]
                 allocs == Split_allocs(cfg.chunk_size, buffer_capacity,
                                        l.total > 0 \/ l.fail = "write")
             IN  IF l.fail # "" THEN Observed(Err(errs[l.fail]), after, buffer_capacity, allocs)
                 ELSE Observed(Ok([file_size |-> Len(f.inFile.data),
                                   total_chunks |-> l.total]), after, buffer_capacity, allocs)

(***************************************************************************)
(* Split::run (blocking).  Failures are io::Error values: the three        *)
(* precondition failures carry their own kind and message, every failure   *)
(* of the operating system is passed on as it is.                          *)
(***************************************************************************)
OsError == "io::Error(os)"

Split_io_errs ==
    [open_in |-> OsError, metadata |-> OsError, read |-> OsError,
     open_out |-> OsError, write |-> OsError]

Split_run(f, cfg, env) ==
    IF ~cfg.in_file_set THEN Outcome(Err("io::InvalidInput(in_file is not set)"), f)
    ELSE IF f.inFile.kind = "absent" THEN Outcome(Err("io::NotFound(in_file path not found)"), f)
    ELSE IF f.inFile.kind # "file" THEN Outcome(Err("io::InvalidInput(in_file is not a path to file)"), f)
    ELSE IF ~cfg.out_dir_set THEN Outcome(Err("io::InvalidInput(out_dir is not set)"), f)
    ELSE IF f.dir.kind = "absent" /\ env.fault = "create_dir_all" THEN Outcome(Err(OsError), f)
    ELSE IF f.dir.kind = "file" THEN Outcome(Err("io::InvalidInput(out_dir is not a directory)"), f)
    ELSE Split_body(f, f.dir.ents, cfg, env, Split_io_errs)

(***************************************************************************)
(* SplitAsyncExt::run_async (async_std).  Failures are SplitError values.  *)
(***************************************************************************)
Split_async_errs ==
    [open_in |-> "InFileNotOpened", metadata |-> "InFileNotRead", read |-> "InFileNotRead",
     open_out |-> "OutFileNotOpened", write |-> "OutFileNotWritten"]

Split_run_async(f, cfg, env) ==
    IF ~cfg.in_file_set THEN Outcome(Err("InFileNotSet"), f)
    ELSE IF f.inFile.kind = "absent" THEN Outcome(Err("InFileNotFound"), f)
    ELSE IF f.inFile.kind # "file" THEN Outcome(Err("InFileNotFile"), f)
    ELSE IF ~cfg.out_dir_set THEN Outcome(Err("OutDirNotSet"), f)
    ELSE IF f.dir.kind = "absent" /\ env.fault = "create_dir_all" THEN Outcome(Err("OutDirNotDir"), f)
    ELSE IF f.dir.kind = "file" THEN Outcome(Err("OutDirNotDir"), f)
    ELSE Split_body(f, f.dir.ents, cfg, env, Split_async_errs)

(***************************************************************************)
(* Configurations and environments of Split.                               *)
(***************************************************************************)
SplitCfgs ==
    [in_file_set : {TRUE}, out_dir_set : {TRUE},
     chunk_size : 1..MaxChunkSize, cap_max : 1..MaxCapMax]

SplitBadCfgs ==
    {[in_file_set |-> FALSE, out_dir_set |-> TRUE, chunk_size |-> 1, cap_max |-> 1],
     [in_file_set |-> TRUE, out_dir_set |-> FALSE, chunk_size |-> 1, cap_max |-> 1]}

SplitFaults == {"create_dir_all", "open_in", "metadata", "read", "open_out", "write"}

SplitEnvs(faults) == [rd : 1..MaxRead, fault : {"none"} \cup faults]

(***************************************************************************)
(* Actions.                                                                *)
(***************************************************************************)
Record(op, cfg, env, o) ==
    /\ fs' = o.fs
    /\ last' = [op |-> op, cfg |-> cfg, env |-> env, pre |-> fs, res |-> o.res, obs |-> o.obs]
    /\ hist' = Append(hist, [op |-> op, cfg |-> cfg, res |-> o.res])

Split(Cfgs, Envs) ==
    \E cfg \in Cfgs, env \in Envs : Record("split", cfg, env, Split_run(fs, cfg, env))

SplitAsync(Cfgs, Envs) ==
    \E cfg \in Cfgs, env \in Envs : Record("split_async", cfg, env, Split_run_async(fs, cfg, env))

NoOp == [op |-> "none", cfg |-> <<>>, env |-> <<>>, pre |-> <<>>, res |-> Ok(<<>>), obs |-> <<>>]

(***************************************************************************)
(* Split on its own: every input file and a chunk directory that is        *)
(* absent, a file, or a directory with older entries.                      *)
(***************************************************************************)
InFiles == {Absent, DirNode(<<>>)} \cup {FileNode(Labelled(InTag, n)) : n \in 0..MaxFileLen}

OldEntries == {Absent, DirNode(<<>>), FileNode(Labelled(OldTag, 1))}

OldNames == {to_string(0), to_string(2)}

DirOf(m) == DirNode([n \in {x \in DOMAIN m : m[x].kind # "absent"} |-> m[n]])

SplitDirs == {Absent, FileNode(<<>>)} \cup {DirOf(m) : m \in [OldNames -> OldEntries]}

InitSplit ==
    /\ fs \in [inFile : InFiles, dir : SplitDirs, out : {Absent}]
    /\ last = NoOp
    /\ hist = <<>>

NextSplit ==
    /\ hist = <<>>
    /\ \/ Split(SplitCfgs \cup SplitBadCfgs, SplitEnvs(SplitFaults))
       \/ SplitAsync(SplitCfgs \cup SplitBadCfgs, SplitEnvs(SplitFaults))

SpecSplit == InitSplit /\ [][NextSplit]_vars

(***************************************************************************)
(* Mutant of Check_scan: the scan stops at the first missing index.        *)
(***************************************************************************)
RECURSIVE Check_scan_first_missing(_, _, _, _, _, _)
Check_scan_first_missing(ents, i, total_chunks, actual_size, missing, env) ==
    IF i >= total_chunks
    THEN [fail |-> "", actual_size |-> actual_size, missing |-> missing]
    ELSE IF ~IsFileIn(ents, to_string(i))
    THEN [fail |-> "", actual_size |-> actual_size, missing |-> Append(missing, i)]
    ELSE IF env.fault = "open_in"
    THEN [fail |-> "InFileNotOpened", actual_size |-> actual_size, missing |-> missing]
    ELSE IF env.fault = "metadata"
    THEN [fail |-> "InFileNotRead", actual_size |-> actual_size, missing |-> missing]
    ELSE Check_scan_first_missing(ents, i + 1, total_chunks,
                                  actual_size + Len(ents[to_string(i)].data), missing, env)

(***************************************************************************)
(* Mutant of Check_scan: no test that the chunk exists, so that a missing  *)
(* chunk is a file that cannot be opened.                                  *)
(***************************************************************************)
RECURSIVE Check_scan_no_exists(_, _, _, _, _, _)
Check_scan_no_exists(ents, i, total_chunks, actual_size, missing, env) ==
    IF i >= total_chunks
    THEN [fail |-> "", actual_size |-> actual_size, missing |-> missing]
    ELSE IF env.fault = "open_in" \/ ~IsFileIn(ents, to_string(i))
    THEN [fail |-> "InFileNotOpened", actual_size |-> actual_size, missing |-> missing]
    ELSE IF env.fault = "metadata"
    THEN [fail |-> "InFileNotRead", actual_size |-> actual_size, missing |-> missing]
    ELSE Check_scan_no_exists(ents, i + 1, total_chunks,
                              actual_size + Len(ents[to_string(i)].data), missing, env)

(***************************************************************************)
(* Check (async_std): scan the indices 0 .. total_chunks - 1.  An index    *)
(* without a regular file is recorded as missing and the scan goes on; a   *)
(* present chunk is opened and its length added to actual_size.            *)
(***************************************************************************)
RECURSIVE Check_scan(_, _, _, _, _, _)
Check_scan(ents, i, total_chunks, actual_size, missing, env) ==
    IF i >= total_chunks
    THEN [fail |-> "", actual_size |-> actual_size, missing |-> missing]
    ELSE IF ~IsFileIn(ents, to_string(i))
    THEN Check_scan(ents, i + 1, total_chunks, actual_size, Append(missing, i), env)
    ELSE IF env.fault = "open_in"
    THEN [fail |-> "InFileNotOpened", actual_size |-> actual_size, missing |-> missing]
    ELSE IF env.fault = "metadata"
    THEN [fail |-> "InFileNotRead", actual_size |-> actual_size, missing |-> missing]
    ELSE Check_scan(ents, i + 1, total_chunks,
                    actual_size + Len(ents[to_string(i)].data), missing, env)

CheckResult(success, error) == [success |-> success, error |-> error]

CheckResultError(error_type, missing) == [error_type |-> error_type, missing |-> missing]

(***************************************************************************)
(* CheckAsyncExt::run_async.  Check changes nothing in the filesystem.     *)
(***************************************************************************)
Check_run_async(f, cfg, env) ==
    IF ~cfg.in_dir_set THEN Outcome(Err("InDirNotSet"), f)
    ELSE IF f.dir.kind = "absent" THEN Outcome(Err("InDirNotFound"), f)
    ELSE IF f.dir.kind # "dir" THEN Outcome(Err("InDirNotDir"), f)
    ELSE IF cfg.file_size = None THEN Outcome(Err("FileSizeNotSet"), f)
    ELSE IF cfg.total_chunks = None THEN Outcome(Err("TotalChunksNotSet"), f)
    ELSE LET s == Check_scan(f.dir.ents, 0, cfg.total_chunks[1], 0, <<>>, env)
         IN  IF s.fail # "" THEN Outcome(Err(s.fail), f)
             ELSE IF s.missing # <<>>
             THEN Outcome(Ok(CheckResult(FALSE, Some(CheckResultError("Missing", Some(s.missing))))), f)
             ELSE IF s.actual_size # cfg.file_size[1]
             THEN Outcome(Ok(CheckResult(FALSE, Some(CheckResultError("Size", None)))), f)
             ELSE Outcome(Ok(CheckResult(TRUE, None)), f)

CheckCfgs ==
    [in_dir_set : {TRUE},
     file_size : {Some(n) : n \in 0..MaxFileLen},
     total_chunks : {Some(n) : n \in 0..MaxTotalChunks}]

CheckBadCfgs ==
    {[in_dir_set |-> FALSE, file_size |-> Some(0), total_chunks |-> Some(0)],
     [in_dir_set |-> TRUE, file_size |-> None, total_chunks |-> Some(0)],
     [in_dir_set |-> TRUE, file_size |-> Some(0), total_chunks |-> None]}

CheckFaults == {"open_in", "metadata"}

CheckEnvs(faults) == [fault : {"none"} \cup faults]

CheckAsync(Cfgs, Envs) ==
    \E cfg \in Cfgs, env \in Envs : Record("check_async", cfg, env, Check_run_async(fs, cfg, env))

(***************************************************************************)
(* Check on its own: a chunk directory that is absent, a file, or holds    *)
(* any of the entries "0", "1", "2" as a chunk of any length or as a       *)
(* subdirectory.                                                           *)
(***************************************************************************)
ChunkEntries(name) ==
    {Absent, DirNode(<<>>)} \cup {FileNode(Labelled(name, k)) : k \in 0..MaxChunkLen}

DirsOver(names) ==
    {DirOf(m) : m \in {g \in [names -> UNION {ChunkEntries(n) : n \in names}] :
                           \A n \in names : g[n] \in ChunkEntries(n)}}

CheckNames == {to_string(0), to_string(1), to_string(2)}

CheckDirs == {Absent, FileNode(<<>>)} \cup DirsOver(CheckNames)

InitCheck ==
    /\ fs \in [inFile : {Absent}, dir : CheckDirs, out : {Absent}]
    /\ last = NoOp
    /\ hist = <<>>

NextCheck ==
    /\ hist = <<>>
    /\ CheckAsync(CheckCfgs \cup CheckBadCfgs, CheckEnvs(CheckFaults))

SpecCheck == InitCheck /\ [][NextCheck]_vars

(***************************************************************************)
(* Merge: the listing of the chunk directory.  env.order is the order in   *)
(* which read_dir returns the entries; the regular files are kept, in      *)
(* that order.                                                             *)
(***************************************************************************)
RegularFiles(ents, order) == SelectSeq(order, LAMBDA n : ents[n].kind = "file")

(***************************************************************************)
(* entries.sort_by_key(|e| e.file_name().parse::<usize>().unwrap()): a     *)
(* stable sort on the parsed name.  The key function is only called when   *)
(* there is something to compare, that is with two entries or more, and    *)
(* then on every entry; unwrap panics on a name that does not parse.       *)
(***************************************************************************)
RECURSIVE InsertByKey(_, _)
InsertByKey(sorted, e) ==
    IF sorted = <<>> THEN <<e>>
    ELSE IF parse_usize(e)[1] < parse_usize(Head(sorted))[1] THEN <<e>> \o sorted
    ELSE <<Head(sorted)>> \o InsertByKey(Tail(sorted), e)

(***************************************************************************)
(* Mutant of sort_by_key: the entries stay in the order of the listing.    *)
(***************************************************************************)
sort_by_key_unsorted(entries) == entries

RECURSIVE sort_by_key(_)
sort_by_key(entries) ==
    IF entries = <<>> THEN <<>>
    ELSE InsertByKey(sort_by_key(SubSeq(entries, 1, Len(entries) - 1)), entries[Len(entries)])

SortPanics(entries) ==
    Len(entries) >= 2 /\ \E i \in 1..Len(entries) : parse_usize(entries[i]) = None

(***************************************************************************)
(* BufWriter::write with capacity cap over the output file.                *)
(* w = [disk, wbuf]: the bytes written to the file since it was opened     *)
(* and the bytes still buffered.  The buffer is written out first when     *)
(* the data does not fit; data of at least cap bytes goes straight to the  *)
(* file.  A write to the file fails under the fault "write"; one that      *)
(* does not fail takes all the bytes it is given (a regular file on a      *)
(* local filesystem), so the count returned by write, which Merge does     *)
(* not look at, is the length of the data.                                 *)
(***************************************************************************)
BufWriter_flush_buf(w, env) ==
    IF w.wbuf = <<>> THEN [fail |-> "", w |-> w]
    ELSE IF env.fault = "write" THEN [fail |-> "write", w |-> w]
    ELSE [fail |-> "", w |-> [disk |-> w.disk \o w.wbuf, wbuf |-> <<>>]]

BufWriter_write(w, data, cap, env) ==
    LET fl == IF Len(w.wbuf) + Len(data) > cap THEN BufWriter_flush_buf(w, env)
              ELSE [fail |-> "", w |-> w]
    IN  IF fl.fail # "" THEN fl
        ELSE IF Len(data) >= cap
        THEN (IF env.fault = "write" THEN [fail |-> "write", w |-> fl.w]
              ELSE [fail |-> "", w |-> [disk |-> fl.w.disk \o data, wbuf |-> fl.w.wbuf]])
        ELSE [fail |-> "", w |-> [disk |-> fl.w.disk, wbuf |-> fl.w.wbuf \o data]]

(***************************************************************************)
(* Merge: the loop over one chunk,                                         *)
(*   loop { read = reader.read(&mut buffer); if read == 0 { break }        *)
(*          writer.write(&buffer[..read]) }                                *)
(* with buffer, reader and writer all of buffer_capacity bytes.            *)
(***************************************************************************)
RECURSIVE Merge_copy(_, _, _, _, _)
Merge_copy(file, r, w, buffer_capacity, env) ==
    IF env.fault = "read" THEN [fail |-> "InFileNotRead", w |-> w]
    ELSE LET x == BufReader_read(file, r, buffer_capacity, buffer_capacity, env.rd)
         IN  IF Len(x.data) = 0 THEN [fail |-> "", w |-> w]
             ELSE LET ww == BufWriter_write(w, x.data, buffer_capacity, env)
                  IN  IF ww.fail # "" THEN [fail |-> "OutFileNotWritten", w |-> ww.w]
                      ELSE Merge_copy(file, x.r, ww.w, buffer_capacity, env)

(***************************************************************************)
(* Merge: the loop over the sorted entries.                                *)
(***************************************************************************)
RECURSIVE Merge_stream(_, _, _, _, _)
Merge_stream(ents, entries, w, buffer_capacity, env) ==
    IF entries = <<>> THEN [fail |-> "", w |-> w]
    ELSE IF env.fault = "open_in" THEN [fail |-> "InFileNotOpened", w |-> w]
    ELSE LET c == Merge_copy(ents[Head(entries)].data, [pos |-> 0, ibuf |-> <<>>],
                             w, buffer_capacity, env)
         IN  IF c.fail # "" THEN c
             ELSE Merge_stream(ents, Tail(entries), c.w, buffer_capacity, env)

(***************************************************************************)
(* The output path of Merge: a path of its own ("out") or the path of the  *)
(* chunk directory itself ("in_dir").                                      *)
(***************************************************************************)
Target(f, cfg) == IF cfg.out_file = "in_dir" THEN f.dir ELSE f.out

SetTarget(f, cfg, node) ==
    IF cfg.out_file = "in_dir" THEN [f EXCEPT !.dir = node] ELSE [f EXCEPT !.out = node]

(***************************************************************************)
(* Mutant of RemoveExisting: the existing output path is left in place.    *)
(***************************************************************************)
RemoveExisting_keep(node) == node

(***************************************************************************)
(* remove_dir_all / remove_file of an existing output path.                *)
(***************************************************************************)
RemoveExisting(node) == Absent

(***************************************************************************)
(* OpenOptions create(true).truncate(false).write(true): a missing file    *)
(* is created empty, an existing one keeps its bytes, and what is written  *)
(* from the start of the file replaces them one for one.                   *)
(***************************************************************************)
OpenNoTruncate(node) == IF node.kind = "absent" THEN FileNode(<<>>) ELSE node

Overwrite(old, written) == written \o SubSeq(old, Len(written) + 1, Len(old))

(***************************************************************************)
(* Merge from the preparation of the destination on (the same statements   *)
(* in both implementations): remove an existing output path, create the    *)
(* parent, open the output, list the chunk directory again, sort, stream   *)
(* every chunk into the writer, flush.  On every failure below the writer  *)
(* buffers nothing, so the file holds what was written to it.              *)
(***************************************************************************)
Merge_write(f, cfg, env, buffer_capacity) ==
    IF Target(f, cfg).kind # "absent" /\ env.fault = "remove"
    THEN Observed(Err("OutFileNotRemoved"), f, buffer_capacity, {})
    ELSE
    LET f1 == IF Target(f, cfg).kind # "absent"
              THEN SetTarget(f, cfg, RemoveExisting(Target(f, cfg))) ELSE f
    IN  IF env.fault = "create_dir_all"
        THEN Observed(Err("OutDirNotCreated"), f1, buffer_capacity, {})
        ELSE IF env.fault = "open_out" \/ Target(f1, cfg).kind = "dir"
        THEN Observed(Err("OutFileNotOpened"), f1, buffer_capacity, {})
        ELSE
        LET f2 == SetTarget(f1, cfg, OpenNoTruncate(Target(f1, cfg)))
            old == Target(f2, cfg).data
            entries == RegularFiles(f2.dir.ents, env.order)
            writer == Merge_allocs(buffer_capacity, FALSE)
        IN  IF f2.dir.kind # "dir" THEN Observed(Err("InDirNotRead"), f2, buffer_capacity, writer)
            ELSE IF SortPanics(entries) THEN Observed(Panic, f2, buffer_capacity, writer)
            ELSE
            LET s == Merge_stream(f2.dir.ents, sort_by_key(entries),
                                  [disk |-> <<>>, wbuf |-> <<>>], buffer_capacity, env)
                fl == BufWriter_flush_buf(s.w, env)
                Written(w) == SetTarget(f2, cfg, FileNode(Overwrite(old, w.disk)))
                allocs == Merge_allocs(buffer_capacity,
                                       entries # <<>> /\ env.fault # "open_in")
            IN  IF s.fail # "" THEN Observed(Err(s.fail), Written(s.w), buffer_capacity, allocs)
                ELSE IF fl.fail # ""
                THEN Observed(Err("OutFileNotWritten"), Written(fl.w), buffer_capacity, allocs)
                ELSE Observed(Ok(TRUE), Written(fl.w), buffer_capacity, allocs)

(***************************************************************************)
(* Merge::run (blocking).  The buffer is sized from the first regular      *)
(* file of the listing.                                                    *)
(***************************************************************************)
Merge_run(f, cfg, env) ==
    IF ~cfg.in_dir_set THEN Outcome(Err("InDirNotSet"), f)
    ELSE IF f.dir.kind = "absent" THEN Outcome(Err("InDirNotFound"), f)
    ELSE IF f.dir.kind # "dir" THEN Outcome(Err("InDirNotDir"), f)
    ELSE IF cfg.out_file = "unset" THEN Outcome(Err("OutFileNotSet"), f)
    ELSE IF env.fault = "read_dir" THEN Outcome(Err("InDirNotFound"), f)
    ELSE LET files == RegularFiles(f.dir.ents, env.order)
         IN  IF files = <<>> THEN Outcome(Err("InDirNoFile"), f)
             ELSE IF env.fault = "metadata" THEN Outcome(Err("InFileNotRead"), f)
             ELSE Merge_write(f, cfg, env,
                              BufferCapacity(Len(f.dir.ents[files[1]].data), cfg.cap_max))

(***************************************************************************)
(* MergeAsyncExt::run_async (async_std).  The buffer is sized from the     *)
(* first entry of the listing, which must be a regular file.               *)
(***************************************************************************)
Merge_run_async(f, cfg, env) ==
    IF ~cfg.in_dir_set THEN Outcome(Err("InDirNotSet"), f)
    ELSE IF f.dir.kind = "absent" THEN Outcome(Err("InDirNotFound"), f)
    ELSE IF f.dir.kind # "dir" THEN Outcome(Err("InDirNotDir"), f)
    ELSE IF cfg.out_file = "unset" THEN Outcome(Err("OutFileNotSet"), f)
    ELSE IF env.fault = "read_dir" THEN Outcome(Err("InDirNotRead"), f)
    ELSE IF env.order = <<>> THEN Outcome(Err("InDirNoFile"), f)
    ELSE IF f.dir.ents[env.order[1]].kind # "file" THEN Outcome(Err("InDirNoFile"), f)
    ELSE IF env.fault = "metadata" THEN Outcome(Err("InDirNotRead"), f)
    ELSE Merge_write(f, cfg, env,
                     BufferCapacity(Len(f.dir.ents[env.order[1]].data), cfg.cap_max))

MergeCfgs(outs) == [in_dir_set : {TRUE}, out_file : outs, cap_max : 1..MaxCapMax]

MergeBadCfgs ==
    {[in_dir_set |-> FALSE, out_file |-> "out", cap_max |-> 1],
     [in_dir_set |-> TRUE, out_file |-> "unset", cap_max |-> 1]}

MergeFaults ==
    {"read_dir", "metadata", "remove", "create_dir_all", "open_out", "open_in", "read", "write"}

MergeEnvs(d, faults) ==
    [order : Perms(DOMAIN d.ents), rd : 1..MaxRead, fault : {"none"} \cup faults]

Merge(Cfgs, faults) ==
    \E cfg \in Cfgs, env \in MergeEnvs(fs.dir, faults) :
        Record("merge", cfg, env, Merge_run(fs, cfg, env))

MergeAsync(Cfgs, faults) ==
    \E cfg \in Cfgs, env \in MergeEnvs(fs.dir, faults) :
        Record("merge_async", cfg, env, Merge_run_async(fs, cfg, env))

(***************************************************************************)
(* Merge on its own: a chunk directory that is absent, a file, or holds    *)
(* any of the entries "2", "10", "x" as a chunk of any length or as a      *)
(* subdirectory; an output path that is absent, an older file or an older  *)
(* directory.                                                              *)
(***************************************************************************)
MergeNames == {to_string(2), to_string(10), <<"x">>}

MergeDirs == {Absent, FileNode(<<>>)} \cup DirsOver(MergeNames)

OldOuts ==
    {Absent, FileNode(Labelled(OldTag, MaxChunkLen + 1)),
     DirNode([n \in {OldTag} |-> FileNode(Labelled(OldTag, 1))])}

InitMerge ==
    /\ fs \in [inFile : {Absent}, dir : MergeDirs, out : OldOuts]
    /\ last = NoOp
    /\ hist = <<>>

NextMerge ==
    /\ hist = <<>>
    /\ \/ Merge(MergeCfgs({"out", "in_dir"}) \cup MergeBadCfgs, MergeFaults)
       \/ MergeAsync(MergeCfgs({"out", "in_dir"}) \cup MergeBadCfgs, MergeFaults)

SpecMerge == InitMerge /\ [][NextMerge]_vars

(***************************************************************************)
(* The pipeline: an input file of any length, a chunk directory that is    *)
(* absent or empty, no output yet and no I/O failure; Split fills the      *)
(* chunk directory, then Merge reads it and writes to a path of its own.   *)
(***************************************************************************)
Init ==
    /\ fs \in [inFile : {FileNode(Labelled(InTag, n)) : n \in 0..MaxFileLen},
                dir : {Absent, DirNode(<<>>)}, out : {Absent}]
    /\ last = NoOp
    /\ hist = <<>>

Next ==
    \/ hist = <<>> /\ Split(SplitCfgs, SplitEnvs({}))
    \/ hist = <<>> /\ SplitAsync(SplitCfgs, SplitEnvs({}))
    \/ Len(hist) = 1 /\ Merge(MergeCfgs({"out"}), {})
    \/ Len(hist) = 1 /\ MergeAsync(MergeCfgs({"out"}), {})

Spec == Init /\ [][Next]_vars

(***************************************************************************)
(* Split twice into one chunk directory, then Merge: a first file is       *)
(* split, the caller puts another file at the input path, that file is     *)
(* split into the same directory, and the directory is merged.  No I/O     *)
(* failure; the buffers of the runs and the reads of Split at their        *)
(* largest size.                                                           *)
(***************************************************************************)
ResplitCfgs == {c \in SplitCfgs : c.cap_max = MaxCapMax}

ResplitEnvs == {e \in SplitEnvs({}) : e.rd = MaxRead}

RemergeCfgs == {c \in MergeCfgs({"out"}) : c.cap_max = MaxCapMax}

NewInput ==
    \E n \in 0..MaxFileLen :
        /\ fs' = [fs EXCEPT !.inFile = FileNode(Labelled(InTag, n))]
        /\ last' = NoOp
        /\ hist' = Append(hist, [op |-> "in_file", cfg |-> <<>>, res |-> Ok(n)])

InitResplit ==
    /\ fs \in [inFile : {FileNode(Labelled(OldTag, n)) : n \in 0..MaxFileLen},
                dir : {Absent, DirNode(<<>>)}, out : {Absent}]
    /\ last = NoOp
    /\ hist = <<>>

NextResplit ==
    \/ Len(hist) \in {0, 2} /\ Split(ResplitCfgs, ResplitEnvs)
    \/ Len(hist) \in {0, 2} /\ SplitAsync(ResplitCfgs, ResplitEnvs)
    \/ Len(hist) = 1 /\ NewInput
    \/ Len(hist) = 3 /\ Merge(RemergeCfgs, {})
    \/ Len(hist) = 3 /\ MergeAsync(RemergeCfgs, {})

SpecResplit == InitResplit /\ [][NextResplit]_vars

(***************************************************************************)
(* Check as the gate of Merge: a chunk directory holding any of the        *)
(* entries "0", "1", "2", checked against an expected size and count,      *)
(* and merged, unchanged, when the verdict is success.  No I/O failure.    *)
(***************************************************************************)
CheckPassed ==
    /\ Len(hist) = 1
    /\ hist[1].op = "check_async"
    /\ hist[1].res = Ok(CheckResult(TRUE, None))

InitGate ==
    /\ fs \in [inFile : {Absent}, dir : DirsOver(CheckNames), out : {Absent}]
    /\ last = NoOp
    /\ hist = <<>>

NextGate ==
    \/ hist = <<>> /\ CheckAsync(CheckCfgs, CheckEnvs({}))
    \/ CheckPassed /\ Merge(MergeCfgs({"out"}), {})
    \/ CheckPassed /\ MergeAsync(MergeCfgs({"out"}), {})

SpecGate == InitGate /\ [][NextGate]_vars

(***************************************************************************)
(* Vocabulary of the properties.                                           *)
(***************************************************************************)
IsSplit(op) == op \in {"split", "split_async"}

IsMerge(op) == op \in {"merge", "merge_async"}

Ceil(a, b) == (a + b - 1) \div b

EntriesOf(node) == IF node.kind = "dir" THEN node.ents ELSE <<>>

RegularNames(ents) == {n \in DOMAIN ents : ents[n].kind = "file"}

MissingIndices(ents, n) == {i \in 0..(n - 1) : ~IsFileIn(ents, to_string(i))}

PresentIndices(ents, n) == {i \in 0..(n - 1) : IsFileIn(ents, to_string(i))}

RECURSIVE SizeSum(_, _)
SizeSum(ents, S) ==
    IF S = {} THEN 0
    ELSE LET i == CHOOSE x \in S : TRUE
         IN  Len(ents[to_string(i)].data) + SizeSum(ents, S \ {i})

Ascending(seq) == \A i, j \in 1..Len(seq) : i < j => seq[i] < seq[j]

NumericNames(S) == \A n \in S : parse_usize(n) # None

(***************************************************************************)
(* The chunks of S concatenated by ascending integer value of the name.    *)
(***************************************************************************)
RECURSIVE ConcatAscending(_, _)
ConcatAscending(ents, S) ==
    IF S = {} THEN <<>>
    ELSE LET n == CHOOSE x \in S : \A y \in S : parse_usize(x)[1] <= parse_usize(y)[1]
         IN  ents[n].data \o ConcatAscending(ents, S \ {n})

SplitThenMerge ==
    /\ Len(hist) = 2
    /\ IsSplit(hist[1].op) /\ hist[1].res.kind = "ok"
    /\ IsMerge(hist[2].op)

(***************************************************************************)
(* C1 as stated: Split of any input file, the empty one included, and      *)
(* then Merge of the chunk directory Split filled (to an output path of    *)
(* its own, with no I/O failure) succeeds and the output file has exactly  *)
(* the bytes of the input file.                                            *)
(***************************************************************************)
C1_RoundTripEveryFile ==
    SplitThenMerge => hist[2].res = Ok(TRUE) /\ fs.out = FileNode(fs.inFile.data)

(***************************************************************************)
(* C1 amended: the round trip holds for every input file that is not       *)
(* empty; for the empty file Split writes no chunk and Merge fails with    *)
(* InDirNoFile.                                                            *)
(***************************************************************************)
C1_RoundTripNonEmpty ==
    SplitThenMerge =>
        IF Len(fs.inFile.data) > 0
        THEN hist[2].res = Ok(TRUE) /\ fs.out = FileNode(fs.inFile.data)
        ELSE hist[2].res = Err("InDirNoFile")

C1_Witness ==
    /\ SplitThenMerge
    /\ hist[1].res.val.total_chunks >= 2
    /\ Len(fs.inFile.data) % hist[1].cfg.chunk_size # 0
    /\ last.env.order # sort_by_key(last.env.order)
    /\ fs.out = FileNode(fs.inFile.data)

(***************************************************************************)
(* C2: a successful Merge (no I/O failure) of a directory whose regular     *)
(* files all have numeric names writes the concatenation of the chunks by  *)
(* ascending integer value of the names, whatever the order of the         *)
(* listing.                                                                *)
(***************************************************************************)
C2_OutputIsNumericConcat ==
    (/\ IsMerge(last.op) /\ last.res = Ok(TRUE) /\ last.cfg.out_file = "out"
     /\ last.env.fault = "none"
     /\ NumericNames(RegularNames(last.pre.dir.ents)))
    => fs.out = FileNode(ConcatAscending(last.pre.dir.ents, RegularNames(last.pre.dir.ents)))

(***************************************************************************)
(* C3: a successful Split of a file of S bytes with chunk size C returns   *)
(* total_chunks = ceil(S / C) when S > 0; for the empty file it returns 0  *)
(* and leaves the entries of the output directory as they were.            *)
(***************************************************************************)
C3_ChunkCount ==
    (IsSplit(last.op) /\ last.res.kind = "ok") =>
        LET S == Len(last.pre.inFile.data)
            C == last.cfg.chunk_size
        IN  /\ last.res.val.file_size = S
            /\ S > 0 => last.res.val.total_chunks = Ceil(S, C)
            /\ S = 0 => /\ last.res.val.total_chunks = 0
                        /\ fs.dir = DirNode(EntriesOf(last.pre.dir))

C3_Witness ==
    /\ IsSplit(last.op) /\ last.res.kind = "ok"
    /\ Len(last.pre.inFile.data) % last.cfg.chunk_size # 0
    /\ last.res.val.total_chunks >= 2
    /\ last.env.rd < last.cfg.chunk_size

(***************************************************************************)
(* C4: after a successful Split, chunk i holds exactly the input bytes     *)
(* [i*C, min((i+1)*C, S)): the chunks cover the file, every chunk but the  *)
(* last has C bytes and the last has between 1 and C, also when reads      *)
(* return fewer bytes than asked for.                                      *)
(***************************************************************************)
C4_ChunkRanges ==
    (IsSplit(last.op) /\ last.res.kind = "ok") =>
        LET file == last.pre.inFile.data
            S == Len(file)
            C == last.cfg.chunk_size
            n == last.res.val.total_chunks
        IN  /\ n * C >= S
            /\ \A i \in 0..(n - 1) :
                   /\ IsFileIn(fs.dir.ents, to_string(i))
                   /\ fs.dir.ents[to_string(i)].data = SubSeq(file, i * C + 1, Min((i + 1) * C, S))
                   /\ i < n - 1 => Len(fs.dir.ents[to_string(i)].data) = C
                   /\ i = n - 1 => Len(fs.dir.ents[to_string(i)].data) \in 1..C

C4_Witness ==
    /\ IsSplit(last.op) /\ last.res.kind = "ok"
    /\ last.res.val.total_chunks >= 2
    /\ last.env.rd < last.cfg.chunk_size
    /\ last.cfg.cap_max < last.cfg.chunk_size
    /\ Len(fs.dir.ents[to_string(last.res.val.total_chunks - 1)].data) < last.cfg.chunk_size

(***************************************************************************)
(* A Check whose configuration is valid: in_dir is an existing directory   *)
(* and both expected values are set.                                       *)
(***************************************************************************)
CheckRan ==
    /\ last.op = "check_async"
    /\ last.cfg.in_dir_set /\ last.pre.dir.kind = "dir"
    /\ last.cfg.file_size # None /\ last.cfg.total_chunks # None

(***************************************************************************)
(* C5: when an index of 0 .. expected_total_chunks - 1 has no regular      *)
(* file (and no present chunk fails to open or to be read), Check returns  *)
(* a result of kind Missing whose list holds exactly the missing indices,  *)
(* ascending, whatever the sizes of the present chunks; a result of kind   *)
(* Size has no missing list.                                               *)
(***************************************************************************)
C5_MissingBeforeSize ==
    CheckRan =>
        LET n == last.cfg.total_chunks[1]
            M == MissingIndices(last.pre.dir.ents, n)
            P == PresentIndices(last.pre.dir.ents, n)
        IN  /\ (M # {} /\ (last.env.fault = "none" \/ P = {})) =>
                   /\ last.res.kind = "ok"
                   /\ last.res.val.success = FALSE
                   /\ last.res.val.error # None
                   /\ last.res.val.error[1].error_type = "Missing"
                   /\ last.res.val.error[1].missing # None
                   /\ Range(last.res.val.error[1].missing[1]) = M
                   /\ Ascending(last.res.val.error[1].missing[1])
            /\ (/\ last.res.kind = "ok" /\ last.res.val.error # None
                 /\ last.res.val.error[1].error_type = "Size") =>
                   last.res.val.error[1].missing = None

C5_Witness ==
    /\ CheckRan
    /\ last.res.kind = "ok"
    /\ last.res.val.error = Some(CheckResultError("Missing", Some(<<0, 2>>)))
    /\ IsFileIn(last.pre.dir.ents, to_string(1))
    /\ Len(last.pre.dir.ents[to_string(1)].data) # last.cfg.file_size[1]

(***************************************************************************)
(* C6: with a valid configuration Check returns Ok with success and no     *)
(* error exactly when every index is a regular file and the sizes add up   *)
(* to expected_file_size, and Ok without success and with an error detail  *)
(* otherwise; it returns Err only for a configuration problem or for a     *)
(* present chunk that cannot be opened or read.                            *)
(***************************************************************************)
C6_VerdictNotErr ==
    /\ (last.op = "check_async" /\ last.res.kind = "err" /\ CheckRan) =>
           /\ last.env.fault # "none"
           /\ PresentIndices(last.pre.dir.ents, last.cfg.total_chunks[1]) # {}
    /\ (CheckRan /\ last.env.fault = "none") =>
           LET n == last.cfg.total_chunks[1]
               complete == MissingIndices(last.pre.dir.ents, n) = {}
               sized == SizeSum(last.pre.dir.ents, PresentIndices(last.pre.dir.ents, n))
                            = last.cfg.file_size[1]
           IN  /\ last.res.kind = "ok"
               /\ last.res.val.success <=> (complete /\ sized)
               /\ last.res.val.success <=> (last.res.val.error = None)

C6_Witness ==
    /\ CheckRan
    /\ last.res = Ok(CheckResult(TRUE, None))
    /\ last.cfg.total_chunks[1] >= 2
    /\ last.cfg.file_size[1] >= 2

(***************************************************************************)
(* C7: a successful Merge onto an output path that existed, as a file or   *)
(* as a directory, leaves there a regular file made of bytes of the        *)
(* chunks only: no byte of the older file and no entry of the older        *)
(* directory is left.  When the buffer is not empty (and the names are     *)
(* numeric) the file is exactly the concatenation of the chunks.           *)
(***************************************************************************)
ChunkBytes(ents) == UNION {Range(ents[n].data) : n \in RegularNames(ents)}

C7_NoStaleOutput ==
    (/\ IsMerge(last.op) /\ last.res.kind = "ok"
     /\ Target(last.pre, last.cfg).kind # "absent") =>
        /\ last.cfg.out_file = "out"
        /\ fs.out.kind = "file"
        /\ fs.out.ents = <<>>
        /\ Range(fs.out.data) \subseteq ChunkBytes(last.pre.dir.ents)
        /\ (/\ last.obs.buffer_capacity > 0
            /\ NumericNames(RegularNames(last.pre.dir.ents))) =>
               fs.out.data = ConcatAscending(last.pre.dir.ents,
                                             RegularNames(last.pre.dir.ents))

C7_Witness ==
    /\ IsMerge(last.op) /\ last.res.kind = "ok"
    /\ last.pre.out.kind = "file"
    /\ fs.out.kind = "file"
    /\ Len(fs.out.data) \in 1..(Len(last.pre.out.data) - 1)

(***************************************************************************)
(* C8: the blocking and the async_std implementation of Merge and of       *)
(* Split, given the same configuration, filesystem and environment,        *)
(* return the same success value or both fail (Merge: with the same        *)
(* MergeError) and leave the same filesystem.                              *)
(***************************************************************************)
SameOutcome(o, exact) ==
    /\ o.fs = fs
    /\ o.res.kind = last.res.kind
    /\ o.res.val = last.res.val
    /\ exact => o.res = last.res

C8_SyncAsyncAgree ==
    /\ last.op = "merge" => SameOutcome(Merge_run_async(last.pre, last.cfg, last.env), TRUE)
    /\ last.op = "merge_async" => SameOutcome(Merge_run(last.pre, last.cfg, last.env), TRUE)
    /\ last.op = "split" => SameOutcome(Split_run_async(last.pre, last.cfg, last.env), FALSE)
    /\ last.op = "split_async" => SameOutcome(Split_run(last.pre, last.cfg, last.env), FALSE)

(***************************************************************************)
(* C9: with a regular file in the chunk directory whose name is not an     *)
(* unsigned integer (and no I/O failure), Merge returns an error value:    *)
(* it neither panics nor succeeds.                                         *)
(***************************************************************************)
C9_StrayNameIsError ==
    (/\ IsMerge(last.op)
     /\ last.cfg.in_dir_set /\ last.cfg.out_file = "out" /\ last.env.fault = "none"
     /\ ~NumericNames(RegularNames(EntriesOf(last.pre.dir)))) =>
        last.res.kind = "err"

(***************************************************************************)
(* C10: with a valid configuration and a listing that can be read, Merge   *)
(* fails with InDirNoFile when the chunk directory has no regular file;    *)
(* when it has one, Merge does not fail with InDirNoFile and sizes its     *)
(* buffer as min(size of the first regular file of the listing, cap_max),  *)
(* entries that are not regular files being skipped.                       *)
(***************************************************************************)
C10_FirstRegularFile ==
    (/\ IsMerge(last.op)
     /\ last.cfg.in_dir_set /\ last.pre.dir.kind = "dir" /\ last.cfg.out_file # "unset"
     /\ last.env.fault = "none") =>
        LET ents == last.pre.dir.ents
            files == RegularFiles(ents, last.env.order)
        IN  IF RegularNames(ents) = {}
            THEN last.res = Err("InDirNoFile")
            ELSE /\ last.res # Err("InDirNoFile")
                 /\ last.obs # <<>>
                 /\ last.obs.buffer_capacity = Min(Len(ents[files[1]].data), last.cfg.cap_max)

(***************************************************************************)
(* Split has passed its preconditions and reached the opening of the       *)
(* input.                                                                  *)
(***************************************************************************)
SplitIoReached ==
    /\ IsSplit(last.op)
    /\ last.cfg.in_file_set /\ last.cfg.out_dir_set
    /\ last.pre.inFile.kind = "file"
    /\ last.pre.dir.kind # "file"
    /\ ~(last.pre.dir.kind = "absent" /\ last.env.fault = "create_dir_all")

(***************************************************************************)
(* C11: a failure of Split to open the input, to read the input, to open   *)
(* a chunk file, or to write or flush a chunk file is returned as the      *)
(* failure kind of that step: InFileNotOpened, InFileNotRead,              *)
(* OutFileNotOpened, OutFileNotWritten.                                    *)
(***************************************************************************)
C11_OwnFailureKind ==
    SplitIoReached =>
        LET nonEmpty == Len(last.pre.inFile.data) > 0
            first == ChunkName(0)
            ents == EntriesOf(last.pre.dir)
            firstIsDir == first \in DOMAIN ents /\ ents[first].kind = "dir"
        IN  /\ last.env.fault = "open_in" => last.res = Err("InFileNotOpened")
            /\ last.env.fault = "read" => last.res = Err("InFileNotRead")
            /\ (nonEmpty /\ (\/ last.env.fault = "open_out"
                             \/ /\ firstIsDir
                                /\ last.env.fault \notin {"open_in", "metadata", "read"})) =>
                   last.res = Err("OutFileNotOpened")
            /\ (nonEmpty /\ last.env.fault = "write" /\ ~firstIsDir) =>
                   last.res = Err("OutFileNotWritten")

(***************************************************************************)
(* The bound of the buffers of the last run: min(chunk_size, cap_max) for  *)
(* Split, min(size of the first listed regular file, cap_max) for Merge.   *)
(***************************************************************************)
Allocated == IF last.obs = <<>> THEN {} ELSE last.obs.allocs

BufferBound ==
    IF IsSplit(last.op) THEN Min(last.cfg.chunk_size, last.cfg.cap_max)
    ELSE LET ents == last.pre.dir.ents
             files == RegularFiles(ents, last.env.order)
         IN  Min(Len(ents[files[1]].data), last.cfg.cap_max)

(***************************************************************************)
(* C12 as stated: no buffer that a Split or a Merge run allocates is       *)
(* larger than the bound of the run.                                       *)
(***************************************************************************)
C12_BuffersBounded ==
    (IsSplit(last.op) \/ IsMerge(last.op)) =>
        \A a \in Allocated : a[2] <= BufferBound

(***************************************************************************)
(* C12 amended: the reader and the writer buffers of Split are no larger   *)
(* than min(chunk_size, cap_max) and its chunk buffer has chunk_size       *)
(* bytes, whatever cap_max; no buffer of Merge is larger than              *)
(* min(size of the first listed regular file, cap_max).                    *)
(***************************************************************************)
C12_ReaderWriterBounded ==
    /\ IsSplit(last.op) =>
           \A a \in Allocated :
               IF a[1] = "buffer" THEN a[2] = last.cfg.chunk_size
               ELSE a[2] <= BufferBound
    /\ IsMerge(last.op) =>
           \A a \in Allocated : a[2] <= BufferBound

C12_Witness ==
    /\ IsSplit(last.op) /\ last.res.kind = "ok"
    /\ last.cfg.chunk_size > last.cfg.cap_max
    /\ {a[1] : a \in Allocated} = {"reader", "buffer", "writer"}
    /\ \E a \in Allocated : a[2] > last.cfg.cap_max

(***************************************************************************)
(* C13: after a successful Split that returns total_chunks = n the         *)
(* regular files of the chunk directory are exactly "0" .. "n-1",          *)
(* whatever the directory held before; and after Split of a file, Split    *)
(* of a second, non-empty file into the same directory and Merge, the      *)
(* output is the second file.                                              *)
(***************************************************************************)
C13_OnlyOwnChunks ==
    /\ (IsSplit(last.op) /\ last.res.kind = "ok") =>
           RegularNames(EntriesOf(fs.dir)) =
               {to_string(i) : i \in 0..(last.res.val.total_chunks - 1)}
    /\ (/\ Len(hist) = 4
        /\ hist[1].res.kind = "ok" /\ hist[3].res.kind = "ok"
        /\ IsMerge(last.op)
        /\ Len(fs.inFile.data) > 0) =>
           /\ last.res = Ok(TRUE)
           /\ fs.out = FileNode(fs.inFile.data)

(***************************************************************************)
(* The chunks "0" .. "n-1" of a directory, concatenated in that order.     *)
(***************************************************************************)
RECURSIVE ConcatIndexed(_, _)
ConcatIndexed(ents, n) ==
    IF n = 0 THEN <<>>
    ELSE ConcatIndexed(ents, n - 1) \o ents[to_string(n - 1)].data

(***************************************************************************)
(* C14: when Check with expected size S and expected count n has returned  *)
(* success and the directory has not changed, Merge returns Ok(true) and   *)
(* its output is a file of exactly S bytes: the chunks 0 .. n-1 in order.  *)
(* Stated for n >= 1, where the directory holds a chunk for Merge to size  *)
(* its buffer from.                                                        *)
(***************************************************************************)
C14_CheckGatesMerge ==
    (/\ Len(hist) = 2
     /\ hist[1].op = "check_async"
     /\ hist[1].res = Ok(CheckResult(TRUE, None))
     /\ hist[1].cfg.total_chunks[1] >= 1
     /\ IsMerge(last.op)) =>
        /\ last.res = Ok(TRUE)
        /\ fs.out.kind = "file"
        /\ Len(fs.out.data) = hist[1].cfg.file_size[1]
        /\ fs.out.data = ConcatIndexed(last.pre.dir.ents, hist[1].cfg.total_chunks[1])

(***************************************************************************)
(* C15: whatever the configuration (the output path included) and whether  *)
(* Merge succeeds or fails, the chunk directory it was given is still      *)
(* there when it returns, with the same entries and the same contents.     *)
(***************************************************************************)
C15_InputUntouched ==
    (IsMerge(last.op) /\ last.pre.dir.kind = "dir") =>
        fs.dir = last.pre.dir

====
